---- MODULE Spec2Model ----
(***************************************************************************)
(* A model of pyquil/api/_persistent_qvm.py: the version guard             *)
(* check_qvm_ng_version, the PersistentQVM session object and the AsyncJob *)
(* object, with the RPCs they issue on a ForestConnection.                 *)
(*                                                                         *)
(* A Python object is a record of its life cycle and its attribute         *)
(* dictionary ("attrs"): an attribute that was never assigned is absent    *)
(* from DOMAIN attrs, and reading it raises AttributeError, as reading an  *)
(* attribute of None does.  A method is an operator from the object, its   *)
(* arguments and the outcomes of the RPCs it may issue to a result         *)
(* [self, rpcs, err, ret]; an action applies one method and appends the    *)
(* RPCs it issued to the log.                                              *)
(***************************************************************************)
EXTENDS Integers, Sequences, FiniteSets, TLC

VARIABLES
    qvm,        \* the PersistentQVM object
    jobs,       \* the AsyncJob objects, in order of construction
    log,        \* per object, the RPCs its construction and release issued
    issued,     \* how many tokens the service has handed out
    last,       \* the last call made on an object, with the RPCs it issued
    version,    \* the argument of check_qvm_ng_version (version guard runs)
    verdict,    \* how check_qvm_ng_version ended on it
    service     \* per job, what the service knows of it, and the RPC of
                \* get_job_result that is waiting for its answer

vars == <<qvm, jobs, log, issued, last, version, verdict, service>>

(***************************************************************************)
(* Bounds of the model.                                                    *)
(***************************************************************************)
\* longest version string given to check_qvm_ng_version
MaxVersionLen == 6
\* AsyncJob objects constructed in one run
MaxJobs == 1
\* RPCs of construction and release the transport fails in one run
MaxFail == 1

(***************************************************************************)
(* Python values.                                                          *)
(***************************************************************************)
None == "None"

PyNone == [py |-> "NoneType"]

PyInt(n) == [py |-> "int", val |-> n]

PyStr(s) == [py |-> "str", val |-> s]

PyList(items) == [py |-> "list", items |-> items]

NoAttrs == [k \in {} |-> None]

HasAttr(attrs, k) == k \in DOMAIN attrs

SetAttr(attrs, k, v) == [n \in DOMAIN attrs \cup {k} |-> IF n = k THEN v ELSE attrs[n]]

Min(a, b) == IF a < b THEN a ELSE b

(***************************************************************************)
(* check_qvm_ng_version.  A version string is a sequence of characters.    *)
(***************************************************************************)
Digits == <<"0", "1", "2">>

VersionChars == {"0", "1", "2", ".", "a"}

IsDigit(c) == \E d \in 1..Len(Digits) : Digits[d] = c

DigitValue(c) == (CHOOSE d \in 1..Len(Digits) : Digits[d] = c) - 1

\* str.split("."): the pieces between the dots, empty pieces included
RECURSIVE Split(_)
Split(s) ==
    IF \A i \in 1..Len(s) : s[i] # "."
    THEN <<s>>
    ELSE LET k == CHOOSE i \in 1..Len(s) : s[i] = "." /\ \A j \in 1..(i - 1) : s[j] # "."
         IN  <<SubSeq(s, 1, k - 1)>> \o Split(SubSeq(s, k + 1, Len(s)))

\* the value of a run of decimal digits
RECURSIVE Decimal(_)
Decimal(s) ==
    IF s = <<>> THEN 0
    ELSE 10 * Decimal(SubSeq(s, 1, Len(s) - 1)) + DigitValue(s[Len(s)])

\* int(segment) over VersionChars: decimal digits, at least one; anything
\* else is ValueError("invalid literal for int()")
ParseInt(seg) ==
    IF seg # <<>> /\ \A i \in 1..Len(seg) : IsDigit(seg[i])
    THEN [ok |-> TRUE, val |-> Decimal(seg)]
    ELSE [ok |-> FALSE, val |-> 0]

\* A plausible slip: the minimum applied to every major line.
check_qvm_ng_version_anymajor(v) ==
    LET segs == Split(v)
    IN  IF \E i \in 1..Min(Len(segs), 4) : ~ParseInt(segs[i]).ok THEN "ValueError"
        ELSE IF Len(segs) # 3 THEN "ValueError"
        ELSE IF ParseInt(segs[2]).val < 11 THEN "QVMVersionMismatch"
        ELSE "ok"

\* major, minor, patch = map(int, version.split(".")): the map is lazy, so
\* the unpacking converts the first three pieces and, looking for a fourth,
\* the fourth; a piece int() rejects and a count other than 3 both end in
\* ValueError.  Then the policy.
check_qvm_ng_version(v) ==
    LET segs  == Split(v)
        major == ParseInt(segs[1]).val
        minor == ParseInt(segs[2]).val
    IN  IF \E i \in 1..Min(Len(segs), 4) : ~ParseInt(segs[i]).ok THEN "ValueError"
        ELSE IF Len(segs) # 3 THEN "ValueError"
        ELSE IF major = 1 /\ minor < 11 THEN "QVMVersionMismatch"
        ELSE "ok"

(***************************************************************************)
(* The transport (ForestConnection), seen from this file: an RPC is issued *)
(* on a connection and comes back with a reply or fails.  "conn" is the    *)
(* connection the caller passes in, "default" the ForestConnection() the   *)
(* constructors make when they are given None.                             *)
(***************************************************************************)
Connections == {"conn", "default"}

ForestConnection == "default"

\* how an RPC can fail; only connect() tells the two apart, so only the
\* version probe is given both
ProbeFailures == {"ConnectionError", "RemoteError"}

OtherFailures == {"ConnectionError"}

Tok(n) == "tok" \o ToString(n)

JobId(i) == "job" \o ToString(i)

\* one RPC as the transport saw it; obj is the object that issued it
Rpc(obj, op, conn, token, arg, o) ==
    [obj |-> obj, op |-> op, conn |-> conn, token |-> token, arg |-> arg,
     outcome |-> o.outcome, reply |-> IF o.outcome = "ok" THEN o.reply ELSE PyNone]

\* how a method ended: the object after it, the RPCs it issued, the
\* exception it raised (None: it returned) and what it returned
Result(self, rpcs, err, ret) == [self |-> self, rpcs |-> rpcs, err |-> err, ret |-> ret]

Raise(self, err) == Result(self, <<>>, err, PyNone)

\* self.connection._qvm_ng_<op>(...): reading self.connection, then the
\* method of it (None has none), then self.token if it is an argument, each
\* an AttributeError when it is missing; then the RPC, whose failure is
\* raised as it is
Call(self, id, op, withToken, arg, o) ==
    IF ~HasAttr(self.attrs, "connection") THEN Raise(self, "AttributeError")
    ELSE IF self.attrs.connection = None THEN Raise(self, "AttributeError")
    ELSE IF withToken /\ ~HasAttr(self.attrs, "token") THEN Raise(self, "AttributeError")
    ELSE LET rpc == Rpc(id, op, self.attrs.connection,
                        IF withToken THEN self.attrs.token ELSE None, arg, o)
         IN  IF o.outcome = "ok"
             THEN Result(self, <<rpc>>, None, o.reply)
             ELSE Result(self, <<rpc>>, o.outcome, PyNone)

\* closed: close() has dropped the connection
Closed(obj) == HasAttr(obj.attrs, "connection") /\ obj.attrs.connection = None

\* an object Python has allocated and not yet initialised
NewObject == [life |-> "new", scope |-> "none", attrs |-> NoAttrs]

(***************************************************************************)
(* Collaborators of this file that live in other modules of the package.   *)
(***************************************************************************)
RecognizedTypes == {"multishot", "expectation", "wavefunction"}

\* validate_job_sub_request: a dict with a recognized "type"
validate_job_sub_request(sub_request) ==
    /\ sub_request.py = "dict"
    /\ "type" \in DOMAIN sub_request
    /\ sub_request.type \in RecognizedTypes

\* validate_num_qubits: a positive integer
validate_num_qubits(n) == n.py = "int" /\ n.val > 0

SimulationMethods == {"pure-state", "full-density-matrix"}

AllocationMethods == {"native", "foreign"}

validate_simulation_method(m) == m \in SimulationMethods

validate_allocation_method(m) == m \in AllocationMethods

\* validate_noise_probabilities: None, or three probabilities; a
\* probability is counted in halves here, 0 .. 2 being 0.0, 0.5 and 1.0
validate_noise_probabilities(p) ==
    \/ p = PyNone
    \/ /\ p.py = "list"
       /\ Len(p.items) = 3
       /\ \A i \in 1..Len(p.items) : p.items[i] >= 0 /\ p.items[i] <= 2

\* get_classical_addresses_from_program: region -> indices the program's
\* declared writes touch
get_classical_addresses_from_program(program) == program.writes

\* qvm_ng_run_program_payload: the run-program request as a sub-request
qvm_ng_run_program_payload(kw) ==
    [py |-> "dict", type |-> "multishot",
     qvm_token |-> kw.qvm_token, quil_program |-> kw.quil_program,
     classical_addresses |-> kw.classical_addresses,
     simulation_method |-> kw.simulation_method,
     allocation_method |-> kw.allocation_method,
     measurement_noise |-> kw.measurement_noise,
     gate_noise |-> kw.gate_noise,
     random_seed |-> kw.random_seed]

(***************************************************************************)
(* class AsyncJob                                                          *)
(***************************************************************************)
AsyncJob_get_version_info(self, id, o) ==
    Call(self, id, "get_version_info", FALSE, PyNone, o)

\* A plausible slip: every failure of the probe reported as a mismatch.
AsyncJob_connect_mismatch(self, id, o) ==
    LET r == AsyncJob_get_version_info(self, id, o)
    IN  IF r.err # None THEN [r EXCEPT !.err = "QVMVersionMismatch"]
        ELSE LET v == check_qvm_ng_version(r.ret.val)
             IN  [r EXCEPT !.err = IF v = "ok" THEN None ELSE v, !.ret = PyNone]

AsyncJob_connect(self, id, o) ==
    LET r == AsyncJob_get_version_info(self, id, o)
    IN  IF r.err = "ConnectionError" THEN [r EXCEPT !.err = "QVMNotRunning"]
        ELSE IF r.err # None THEN r
        ELSE LET v == check_qvm_ng_version(r.ret.val)
             IN  [r EXCEPT !.err = IF v = "ok" THEN None ELSE v, !.ret = PyNone]

\* A plausible slip: the job keeping the token found in its sub-request
\* (the session's, for a job made by run_program_async) as its own.
AsyncJob_init_sessiontoken(id, sub_request, connection, probe, create) ==
    IF ~validate_job_sub_request(sub_request)
    THEN Raise([NewObject EXCEPT !.life = "failed"], "ValidationError")
    ELSE LET conn  == IF connection = None THEN ForestConnection ELSE connection
             self1 == [NewObject EXCEPT !.attrs = SetAttr(@, "connection", conn)]
             c     == AsyncJob_connect(self1, id, probe)
         IN  IF c.err # None
             THEN [c EXCEPT !.self = [self1 EXCEPT !.life = "failed"]]
             ELSE LET t == Call(self1, id, "create_job", FALSE, sub_request, create)
                      k == IF "qvm_token" \in DOMAIN sub_request
                           THEN sub_request.qvm_token ELSE t.ret.val
                  IN  IF t.err # None
                      THEN Result([self1 EXCEPT !.life = "failed"],
                                  c.rpcs \o t.rpcs, t.err, PyNone)
                      ELSE Result([self1 EXCEPT !.life = "live",
                                                !.attrs = SetAttr(@, "token", k)],
                                  c.rpcs \o t.rpcs, None, PyNone)

\* AsyncJob(sub_request, connection): probe and create are what the
\* transport answers to the two RPCs, if they are issued
AsyncJob_init(id, sub_request, connection, probe, create) ==
    IF ~validate_job_sub_request(sub_request)
    THEN Raise([NewObject EXCEPT !.life = "failed"], "ValidationError")
    ELSE LET conn  == IF connection = None THEN ForestConnection ELSE connection
             self1 == [NewObject EXCEPT !.attrs = SetAttr(@, "connection", conn)]
             c     == AsyncJob_connect(self1, id, probe)
         IN  IF c.err # None
             THEN [c EXCEPT !.self = [self1 EXCEPT !.life = "failed"]]
             ELSE LET t == Call(self1, id, "create_job", FALSE, sub_request, create)
                  IN  IF t.err # None
                      THEN Result([self1 EXCEPT !.life = "failed"],
                                  c.rpcs \o t.rpcs, t.err, PyNone)
                      ELSE Result([self1 EXCEPT !.life = "live",
                                                !.attrs = SetAttr(@, "token", t.ret.val)],
                                  c.rpcs \o t.rpcs, None, PyNone)

\* A plausible slip: the guard kept, the connection not dropped.
AsyncJob_close_keeps(self, id, o) ==
    IF ~HasAttr(self.attrs, "connection") THEN Raise(self, "AttributeError")
    ELSE IF self.attrs.connection # None
    THEN LET r == Call(self, id, "delete_job", TRUE, PyNone, o)
         IN  [r EXCEPT !.ret = PyNone]
    ELSE Result(self, <<>>, None, PyNone)

AsyncJob_close(self, id, o) ==
    IF ~HasAttr(self.attrs, "connection") THEN Raise(self, "AttributeError")
    ELSE IF self.attrs.connection # None
    THEN LET r == Call(self, id, "delete_job", TRUE, PyNone, o)
         IN  IF r.err # None THEN r
             ELSE Result([self EXCEPT !.attrs = SetAttr(@, "connection", None)],
                         r.rpcs, None, PyNone)
    ELSE Result(self, <<>>, None, PyNone)

\* __exit__ is close(), and returns None whatever the body did
AsyncJob_exit(self, id, exc, o) ==
    LET r == AsyncJob_close(self, id, o) IN [r EXCEPT !.ret = PyNone]

\* __del__ is close()
AsyncJob_del(self, id, o) == AsyncJob_close(self, id, o)

AsyncJob_get_job_info(self, id, o) == Call(self, id, "job_info", TRUE, PyNone, o)

\* A plausible slip: the result read with the RPC that does not wait.
AsyncJob_get_job_result_polls(self, id, o) ==
    LET r == Call(self, id, "job_info", TRUE, PyNone, o)
    IN  IF r.err # None \/ "result" \notin DOMAIN r.ret THEN r
        ELSE [r EXCEPT !.ret = r.ret.result]

\* A plausible slip: a closed job skipped over in silence.
AsyncJob_get_job_result_silent(self, id, o) ==
    IF Closed(self) THEN Result(self, <<>>, None, PyNone)
    ELSE Call(self, id, "job_result", TRUE, PyNone, o)

AsyncJob_get_job_result(self, id, o) == Call(self, id, "job_result", TRUE, PyNone, o)

(***************************************************************************)
(* class PersistentQVM                                                     *)
(***************************************************************************)
PersistentQVM_get_version_info(self, id, o) ==
    Call(self, id, "get_version_info", FALSE, PyNone, o)

\* A plausible slip: the version read and not checked.
PersistentQVM_connect_unchecked(self, id, o) ==
    LET r == PersistentQVM_get_version_info(self, id, o)
    IN  IF r.err = "ConnectionError" THEN [r EXCEPT !.err = "QVMNotRunning"]
        ELSE IF r.err # None THEN r
        ELSE [r EXCEPT !.ret = PyNone]

PersistentQVM_connect(self, id, o) ==
    LET r == PersistentQVM_get_version_info(self, id, o)
    IN  IF r.err = "ConnectionError" THEN [r EXCEPT !.err = "QVMNotRunning"]
        ELSE IF r.err # None THEN r
        ELSE LET v == check_qvm_ng_version(r.ret.val)
             IN  [r EXCEPT !.err = IF v = "ok" THEN None ELSE v, !.ret = PyNone]

\* the five attributes __init__ stores once the validators have passed
PersistentQVM_store_config(self, a) ==
    [self EXCEPT !.attrs =
        SetAttr(SetAttr(SetAttr(SetAttr(SetAttr(@,
            "num_qubits", a.num_qubits),
            "simulation_method", a.simulation_method),
            "allocation_method", a.allocation_method),
            "measurement_noise", a.measurement_noise),
            "gate_noise", a.gate_noise)]

\* what __init__ hands to _qvm_ng_create_qvm
PersistentQVM_create_args(a) ==
    [py |-> "dict",
     simulation_method |-> a.simulation_method,
     allocation_method |-> a.allocation_method,
     num_qubits |-> a.num_qubits,
     measurement_noise |-> a.measurement_noise,
     gate_noise |-> a.gate_noise]

\* A plausible slip: the token attribute given a placeholder before the
\* service is contacted.
PersistentQVM_init_connect_pretoken(self2, id, a, probe, create) ==
    LET conn  == IF a.connection = None THEN ForestConnection ELSE a.connection
        self3 == [self2 EXCEPT !.attrs = SetAttr(SetAttr(@, "connection", conn),
                                                 "token", None)]
        c     == PersistentQVM_connect(self3, id, probe)
    IN  IF c.err # None
        THEN [c EXCEPT !.self = [self3 EXCEPT !.life = "failed"]]
        ELSE LET t == Call(self3, id, "create_qvm", FALSE,
                           PersistentQVM_create_args(a), create)
             IN  IF t.err # None
                 THEN Result([self3 EXCEPT !.life = "failed"],
                             c.rpcs \o t.rpcs, t.err, PyNone)
                 ELSE Result([self3 EXCEPT !.life = "live",
                                           !.attrs = SetAttr(@, "token", t.ret.val)],
                             c.rpcs \o t.rpcs, None, PyNone)

\* the tail of __init__, from the connection on
PersistentQVM_init_connect(self2, id, a, probe, create) ==
    LET conn  == IF a.connection = None THEN ForestConnection ELSE a.connection
        self3 == [self2 EXCEPT !.attrs = SetAttr(@, "connection", conn)]
        c     == PersistentQVM_connect(self3, id, probe)
    IN  IF c.err # None
        THEN [c EXCEPT !.self = [self3 EXCEPT !.life = "failed"]]
        ELSE LET t == Call(self3, id, "create_qvm", FALSE,
                           PersistentQVM_create_args(a), create)
             IN  IF t.err # None
                 THEN Result([self3 EXCEPT !.life = "failed"],
                             c.rpcs \o t.rpcs, t.err, PyNone)
                 ELSE Result([self3 EXCEPT !.life = "live",
                                           !.attrs = SetAttr(@, "token", t.ret.val)],
                             c.rpcs \o t.rpcs, None, PyNone)

\* A plausible slip: the connection made and probed before the arguments
\* are looked at.
PersistentQVM_init_probe_first(id, a, probe, create) ==
    LET conn  == IF a.connection = None THEN ForestConnection ELSE a.connection
        self1 == [NewObject EXCEPT !.attrs = SetAttr(@, "connection", conn)]
        c     == PersistentQVM_connect(self1, id, probe)
    IN  IF c.err # None THEN [c EXCEPT !.self = [self1 EXCEPT !.life = "failed"]]
        ELSE IF ~(/\ validate_num_qubits(a.num_qubits)
                  /\ validate_simulation_method(a.simulation_method)
                  /\ validate_allocation_method(a.allocation_method)
                  /\ validate_noise_probabilities(a.measurement_noise)
                  /\ validate_noise_probabilities(a.gate_noise)
                  /\ (a.random_seed = PyNone
                        \/ (a.random_seed.py = "int" /\ a.random_seed.val >= 0)))
        THEN Result([self1 EXCEPT !.life = "failed"], c.rpcs, "ValidationError", PyNone)
        ELSE LET self2 == [PersistentQVM_store_config(self1, a) EXCEPT
                              !.attrs = SetAttr(@, "random_seed", a.random_seed)]
                 t == Call(self2, id, "create_qvm", FALSE,
                           PersistentQVM_create_args(a), create)
             IN  IF t.err # None
                 THEN Result([self2 EXCEPT !.life = "failed"],
                             c.rpcs \o t.rpcs, t.err, PyNone)
                 ELSE Result([self2 EXCEPT !.life = "live",
                                           !.attrs = SetAttr(@, "token", t.ret.val)],
                             c.rpcs \o t.rpcs, None, PyNone)

\* PersistentQVM(num_qubits, connection, ..., random_seed)
PersistentQVM_init(id, a, probe, create) ==
    IF ~validate_num_qubits(a.num_qubits)
       \/ ~validate_simulation_method(a.simulation_method)
       \/ ~validate_allocation_method(a.allocation_method)
       \/ ~validate_noise_probabilities(a.measurement_noise)
       \/ ~validate_noise_probabilities(a.gate_noise)
    THEN Raise([NewObject EXCEPT !.life = "failed"], "ValidationError")
    ELSE LET self1 == PersistentQVM_store_config(NewObject, a)
         IN  IF a.random_seed = PyNone
             THEN PersistentQVM_init_connect(
                      [self1 EXCEPT !.attrs = SetAttr(@, "random_seed", PyNone)],
                      id, a, probe, create)
             ELSE IF a.random_seed.py = "int" /\ a.random_seed.val >= 0
             THEN PersistentQVM_init_connect(
                      [self1 EXCEPT !.attrs = SetAttr(@, "random_seed", a.random_seed)],
                      id, a, probe, create)
             ELSE Raise([self1 EXCEPT !.life = "failed"], "TypeError")

\* A plausible slip: the guard kept, the connection not dropped.
PersistentQVM_close_keeps(self, id, o) ==
    IF ~HasAttr(self.attrs, "connection") THEN Raise(self, "AttributeError")
    ELSE IF self.attrs.connection # None
    THEN LET r == Call(self, id, "delete_qvm", TRUE, PyNone, o)
         IN  [r EXCEPT !.ret = PyNone]
    ELSE Result(self, <<>>, None, PyNone)

\* A plausible slip: the connection dropped whether or not the delete RPC
\* succeeded.
PersistentQVM_close_dropsfirst(self, id, o) ==
    IF ~HasAttr(self.attrs, "connection") THEN Raise(self, "AttributeError")
    ELSE IF self.attrs.connection # None
    THEN LET r == Call(self, id, "delete_qvm", TRUE, PyNone, o)
         IN  IF r.rpcs = <<>> THEN r
             ELSE Result([self EXCEPT !.attrs = SetAttr(@, "connection", None)],
                         r.rpcs, r.err, PyNone)
    ELSE Result(self, <<>>, None, PyNone)

PersistentQVM_close(self, id, o) ==
    IF ~HasAttr(self.attrs, "connection") THEN Raise(self, "AttributeError")
    ELSE IF self.attrs.connection # None
    THEN LET r == Call(self, id, "delete_qvm", TRUE, PyNone, o)
         IN  IF r.err # None THEN r
             ELSE Result([self EXCEPT !.attrs = SetAttr(@, "connection", None)],
                         r.rpcs, None, PyNone)
    ELSE Result(self, <<>>, None, PyNone)

\* A plausible slip: __exit__ returning a true value.
PersistentQVM_exit_true(self, id, exc, o) ==
    LET r == PersistentQVM_close(self, id, o) IN [r EXCEPT !.ret = [py |-> "bool", val |-> TRUE]]

\* __exit__ is close(), and returns None whatever the body did
PersistentQVM_exit(self, id, exc, o) ==
    LET r == PersistentQVM_close(self, id, o) IN [r EXCEPT !.ret = PyNone]

\* __del__ is close()
PersistentQVM_del(self, id, o) == PersistentQVM_close(self, id, o)

PersistentQVM_get_qvm_info(self, id, o) == Call(self, id, "qvm_info", TRUE, PyNone, o)

PersistentQVM_read_memory(self, id, classical_addresses, o) ==
    Call(self, id, "read_memory", TRUE, classical_addresses, o)

\* A plausible slip: the connection given up when the RPC fails.
PersistentQVM_write_memory_drops(self, id, memory_contents, o) ==
    LET r == Call(self, id, "write_memory", TRUE, memory_contents, o)
    IN  IF r.err # None /\ r.rpcs # <<>>
        THEN [r EXCEPT !.self = [self EXCEPT !.attrs = SetAttr(@, "connection", None)]]
        ELSE [r EXCEPT !.ret = PyNone]

PersistentQVM_write_memory(self, id, memory_contents, o) ==
    LET r == Call(self, id, "write_memory", TRUE, memory_contents, o)
    IN  [r EXCEPT !.ret = PyNone]

\* A plausible slip: a closed session skipped over in silence.
PersistentQVM_resume_silent(self, id, o) ==
    IF Closed(self) THEN Result(self, <<>>, None, PyNone)
    ELSE LET r == Call(self, id, "resume", TRUE, PyNone, o) IN [r EXCEPT !.ret = PyNone]

PersistentQVM_resume(self, id, o) ==
    LET r == Call(self, id, "resume", TRUE, PyNone, o) IN [r EXCEPT !.ret = PyNone]

\* the keyword arguments run_program and run_program_async build; reading
\* self.token and self.random_seed needs both attributes
PersistentQVM_run_kwargs(self, quil_program) ==
    [py |-> "dict",
     quil_program |-> quil_program,
     qvm_token |-> self.attrs.token,
     simulation_method |-> None,
     allocation_method |-> None,
     classical_addresses |-> get_classical_addresses_from_program(quil_program),
     measurement_noise |-> None,
     gate_noise |-> None,
     random_seed |-> self.attrs.random_seed]

\* A plausible slip: the seed left out of the request.
PersistentQVM_run_program_noseed(self, id, quil_program, o) ==
    IF quil_program.py # "Program" THEN Raise(self, "TypeError")
    ELSE IF ~HasAttr(self.attrs, "connection") THEN Raise(self, "AttributeError")
    ELSE IF self.attrs.connection = None THEN Raise(self, "AttributeError")
    ELSE IF ~HasAttr(self.attrs, "token") \/ ~HasAttr(self.attrs, "random_seed")
    THEN Raise(self, "AttributeError")
    ELSE LET kw == PersistentQVM_run_kwargs(self, quil_program)
         IN  Call(self, id, "run_program", TRUE, [kw EXCEPT !.random_seed = PyNone], o)

PersistentQVM_run_program(self, id, quil_program, o) ==
    IF quil_program.py # "Program" THEN Raise(self, "TypeError")
    ELSE IF ~HasAttr(self.attrs, "connection") THEN Raise(self, "AttributeError")
    ELSE IF self.attrs.connection = None THEN Raise(self, "AttributeError")
    ELSE IF ~HasAttr(self.attrs, "token") \/ ~HasAttr(self.attrs, "random_seed")
    THEN Raise(self, "AttributeError")
    ELSE LET kw == PersistentQVM_run_kwargs(self, quil_program)
         IN  Call(self, id, "run_program", TRUE, kw, o)

\* the outcome of run_program_async: a Result, and in "made" the AsyncJob
\* object the call allocated, if it got that far
AsyncResult(r, made) ==
    [self |-> r.self, rpcs |-> r.rpcs, err |-> r.err, ret |-> r.ret, made |-> made]

\* A plausible slip: the sub-request built without the session's seed.
PersistentQVM_run_program_async_noseed(self, id, jid, quil_program, probe, create) ==
    IF quil_program.py # "Program" THEN AsyncResult(Raise(self, "TypeError"), <<>>)
    ELSE IF ~HasAttr(self.attrs, "token") \/ ~HasAttr(self.attrs, "random_seed")
            \/ ~HasAttr(self.attrs, "connection")
    THEN AsyncResult(Raise(self, "AttributeError"), <<>>)
    ELSE LET kw == PersistentQVM_run_kwargs(self, quil_program)
             sub_request ==
                 qvm_ng_run_program_payload([kw EXCEPT !.random_seed = PyNone])
             j == AsyncJob_init(jid, sub_request, self.attrs.connection, probe, create)
         IN  AsyncResult(
                 Result(self, j.rpcs, j.err,
                        IF j.err = None THEN [py |-> "AsyncJob", id |-> jid] ELSE PyNone),
                 <<j.self>>)

\* run_program_async: the payload is built from self.token and
\* self.random_seed, and AsyncJob is constructed with connection =
\* self.connection, which is None once the session is closed
PersistentQVM_run_program_async(self, id, jid, quil_program, probe, create) ==
    IF quil_program.py # "Program" THEN AsyncResult(Raise(self, "TypeError"), <<>>)
    ELSE IF ~HasAttr(self.attrs, "token") \/ ~HasAttr(self.attrs, "random_seed")
            \/ ~HasAttr(self.attrs, "connection")
    THEN AsyncResult(Raise(self, "AttributeError"), <<>>)
    ELSE LET sub_request ==
                 qvm_ng_run_program_payload(PersistentQVM_run_kwargs(self, quil_program))
             j == AsyncJob_init(jid, sub_request, self.attrs.connection, probe, create)
         IN  AsyncResult(
                 Result(self, j.rpcs, j.err,
                        IF j.err = None THEN [py |-> "AsyncJob", id |-> jid] ELSE PyNone),
                 <<j.self>>)

\* what a with statement raises after __exit__ returned r while the body
\* raised exc (None: it did not): __exit__'s own exception, or else the
\* body's unless __exit__ returned a true value
WithRaises(r, exc) ==
    IF r.err # None THEN r.err
    ELSE IF exc # None /\ r.ret = PyNone THEN exc
    ELSE None

(***************************************************************************)
(* The inputs of a run.                                                    *)
(***************************************************************************)
ServerVersions ==
    { <<"1", ".", "1", "1", ".", "0">>,
      <<"1", ".", "1", "0", ".", "0">>,
      <<"1", ".", "a">> }

GoodArgs ==
    [num_qubits |-> PyInt(2), connection |-> "conn",
     simulation_method |-> "pure-state", allocation_method |-> "native",
     measurement_noise |-> PyNone, gate_noise |-> PyNone, random_seed |-> PyInt(1)]

SessionArgs ==
    { GoodArgs,
      [GoodArgs EXCEPT !.connection = None, !.random_seed = PyNone,
                       !.simulation_method = "full-density-matrix",
                       !.measurement_noise = PyList(<<0, 1, 2>>),
                       !.gate_noise = PyList(<<0, 0, 0>>)],
      [GoodArgs EXCEPT !.num_qubits = PyInt(0)],
      [GoodArgs EXCEPT !.simulation_method = "bogus"],
      [GoodArgs EXCEPT !.allocation_method = "bogus"],
      [GoodArgs EXCEPT !.measurement_noise = PyList(<<0, 1>>)],
      [GoodArgs EXCEPT !.gate_noise = PyList(<<0, 3, 0>>)],
      [GoodArgs EXCEPT !.random_seed = PyInt(-1)],
      [GoodArgs EXCEPT !.random_seed = PyStr("seed")] }

SubRequests ==
    { [py |-> "dict", type |-> "expectation"],
      [py |-> "dict", type |-> "bogus"],
      [py |-> "dict"],
      [py |-> "str"] }

Programs ==
    { [py |-> "Program", name |-> "p", writes |-> [ro |-> <<0, 1>>]],
      [py |-> "Program", name |-> "r", writes |-> [ro |-> <<2>>, aux |-> <<0>>]],
      [py |-> "str", name |-> "q", writes |-> [ro |-> <<>>]] }

\* the methods that are neither construction nor release
PlainOps == {"get_version_info", "get_qvm_info", "read_memory", "write_memory", "resume",
             "run_program", "get_job_info", "get_job_result"}

CreateOps == {"create_qvm", "create_job"}

QVM == "qvm"

ObjectIds == {QVM} \cup {JobId(i) : i \in 1..MaxJobs}

RECURSIVE SumOver(_, _)
SumOver(f, S) ==
    IF S = {} THEN 0
    ELSE LET x == CHOOSE y \in S : TRUE IN f[x] + SumOver(f, S \ {x})


\* how many RPCs of a sequence failed
Failures(rpcs) == Cardinality({i \in DOMAIN rpcs : rpcs[i].outcome # "ok"})

\* how many RPCs of a sequence were answered with a new token
Granted(rpcs) ==
    Cardinality({i \in DOMAIN rpcs : rpcs[i].op \in CreateOps /\ rpcs[i].outcome = "ok"})

\* how many RPCs of all the logs failed
FailuresLogged == SumOver([id \in ObjectIds |-> Failures(log[id])], ObjectIds)


\* the answers the transport may give: a reply, or a failure while fewer
\* than MaxFail RPCs have failed
Answers(replies, failures) ==
    {[outcome |-> "ok", reply |-> rp] : rp \in replies}
    \cup {[outcome |-> f, reply |-> PyNone] :
            f \in IF FailuresLogged < MaxFail THEN failures ELSE {}}

ProbeAnswers == Answers({PyStr(v) : v \in ServerVersions}, ProbeFailures)

CreateAnswers == Answers({PyStr(Tok(issued + 1))}, OtherFailures)

PlainAnswers == Answers({[py |-> "dict"]}, OtherFailures)

\* The service's side of a job: its status, pending, then running, then
\* complete; its recorded result, there once it is complete; and inflight,
\* the RPC of a get_job_result call that has not been answered yet.
JobStatuses == <<"pending", "running", "complete">>

TerminalStatuses == {"complete"}

JobResults == {[py |-> "dict", ro |-> <<0>>], [py |-> "dict", ro |-> <<1>>]}

NoService ==
    [i \in 1..MaxJobs |-> [status |-> JobStatuses[1], result |-> PyNone, inflight |-> None]]

\* "job info" is answered at once, with the status as it is and the result
\* as it is recorded
JobInfoAnswers(i) ==
    Answers({[py |-> "dict", status |-> service[i].status, result |-> service[i].result]},
            OtherFailures)

\* "job result" is answered once the status is terminal, with the recorded
\* result
JobResultAnswers(i) ==
    Answers(IF service[i].status \in TerminalStatuses THEN {service[i].result} ELSE {},
            OtherFailures)

\* a call: the object and the method, how it ended (err: the exception the
\* caller sees, None if none), the RPCs it issued, whether it changed the
\* object, its argument and what it returned
\* prior: whether the call before this one was the same method of the same
\* object, and then how that one ended and the RPCs it issued
NoCall ==
    [obj |-> None, op |-> None, err |-> None, rpcs |-> <<>>, changed |-> FALSE,
     arg |-> PyNone, ret |-> PyNone,
     prior |-> [same |-> FALSE, err |-> None, rpcs |-> <<>>]]

Prior(id, op) ==
    IF last.obj = id /\ last.op = op
    THEN [same |-> TRUE, err |-> last.err, rpcs |-> last.rpcs]
    ELSE [same |-> FALSE, err |-> None, rpcs |-> <<>>]

\* an RPC of the log names the method the caller called
By(rpc, op) ==
    [obj |-> rpc.obj, by |-> op, op |-> rpc.op, conn |-> rpc.conn, token |-> rpc.token,
     arg |-> rpc.arg, outcome |-> rpc.outcome, reply |-> rpc.reply]

\* the bookkeeping every call shares: the call becomes the last one, the
\* tokens granted are counted, and the RPCs of construction and release go
\* to the log of the object that issued them
CalledIn(id, op, arg, before, r, err) ==
    LET rpcs == [i \in DOMAIN r.rpcs |-> By(r.rpcs[i], op)]
    IN  /\ log' = [o \in ObjectIds |->
                      IF op \in PlainOps THEN log[o]
                      ELSE log[o] \o SelectSeq(rpcs, LAMBDA rpc : rpc.obj = o)]
        /\ issued' = issued + Granted(r.rpcs)
        /\ last' = [obj |-> id, op |-> op, err |-> err, rpcs |-> rpcs,
                    changed |-> r.self # before, arg |-> arg, ret |-> r.ret,
                    prior |-> Prior(id, op)]
        /\ UNCHANGED <<version, verdict>>

\* a call that is over when it is made leaves the service as it is
Called(id, op, arg, before, r, err) ==
    CalledIn(id, op, arg, before, r, err) /\ UNCHANGED service

(***************************************************************************)
(* The state machine: one PersistentQVM and up to MaxJobs AsyncJobs, and a *)
(* caller that constructs them, calls their methods, uses them in with     *)
(* statements and drops them.                                              *)
(***************************************************************************)
Init ==
    /\ qvm = [life |-> "unborn", scope |-> "none", attrs |-> NoAttrs]
    /\ jobs = <<>>
    /\ log = [o \in ObjectIds |-> <<>>]
    /\ issued = 0
    /\ last = NoCall
    /\ version = <<>>
    /\ verdict = "idle"
    /\ service = NoService

\* q = PersistentQVM(...)
NewPersistentQVM ==
    /\ qvm.life = "unborn"
    /\ \E a \in SessionArgs, probe \in ProbeAnswers, create \in CreateAnswers :
          LET r == PersistentQVM_init(QVM, a, probe, create)
          IN  /\ qvm' = r.self
              /\ Called(QVM, "__init__", a, NewObject, r, r.err)
    /\ UNCHANGED jobs

\* a method of q that takes no argument and leaves the scope alone
QvmCall(op, arg, r) ==
    /\ qvm' = r.self
    /\ Called(QVM, op, arg, qvm, r, r.err)
    /\ UNCHANGED jobs

QVM_close ==
    /\ qvm.life = "live"
    /\ \E o \in PlainAnswers : QvmCall("close", PyNone, PersistentQVM_close(qvm, QVM, o))

QVM_get_version_info ==
    /\ qvm.life = "live"
    /\ \E o \in ProbeAnswers :
          QvmCall("get_version_info", PyNone, PersistentQVM_get_version_info(qvm, QVM, o))

QVM_get_qvm_info ==
    /\ qvm.life = "live"
    /\ \E o \in PlainAnswers :
          QvmCall("get_qvm_info", PyNone, PersistentQVM_get_qvm_info(qvm, QVM, o))

QVM_read_memory ==
    /\ qvm.life = "live"
    /\ \E o \in PlainAnswers :
          LET addresses == [py |-> "dict", ro |-> <<0>>]
          IN  QvmCall("read_memory", addresses,
                      PersistentQVM_read_memory(qvm, QVM, addresses, o))

QVM_write_memory ==
    /\ qvm.life = "live"
    /\ \E o \in PlainAnswers :
          LET contents == [py |-> "dict", ro |-> <<1>>]
          IN  QvmCall("write_memory", contents,
                      PersistentQVM_write_memory(qvm, QVM, contents, o))

QVM_resume ==
    /\ qvm.life = "live"
    /\ \E o \in PlainAnswers : QvmCall("resume", PyNone, PersistentQVM_resume(qvm, QVM, o))

QVM_run_program ==
    /\ qvm.life = "live"
    /\ \E p \in Programs, o \in PlainAnswers :
          QvmCall("run_program", p, PersistentQVM_run_program(qvm, QVM, p, o))

\* job = q.run_program_async(p): the AsyncJob it allocates joins jobs
QVM_run_program_async ==
    /\ qvm.life = "live"
    /\ \E p \in Programs, probe \in ProbeAnswers, create \in CreateAnswers :
          LET jid == JobId(Len(jobs) + 1)
              r   == PersistentQVM_run_program_async(qvm, QVM, jid, p, probe, create)
          IN  /\ Len(jobs) + Len(r.made) <= MaxJobs
              /\ qvm' = r.self
              /\ jobs' = jobs \o r.made
              /\ Called(QVM, "run_program_async", p, qvm, r, r.err)

\* with q: ...
QVM_enter ==
    /\ qvm.life = "live"
    /\ qvm.scope = "none"
    /\ qvm' = [qvm EXCEPT !.scope = "in"]
    /\ Called(QVM, "__enter__", PyNone, qvm, Result(qvm, <<>>, None, PyNone), None)
    /\ UNCHANGED jobs

\* the end of the with block, the body having raised exc or not
QVM_exit ==
    /\ qvm.life = "live"
    /\ qvm.scope = "in"
    /\ \E exc \in {None, "BodyError"}, o \in PlainAnswers :
          LET r == PersistentQVM_exit(qvm, QVM, exc, o)
          IN  /\ qvm' = [r.self EXCEPT !.scope = "done"]
              /\ Called(QVM, "__exit__", PyStr(exc), qvm, r, WithRaises(r, exc))
    /\ UNCHANGED jobs

\* the last reference to q goes away; what __del__ raises is not propagated
QVM_del ==
    /\ qvm.life \in {"live", "failed"}
    /\ qvm.scope # "in"
    /\ \E o \in PlainAnswers :
          LET r == PersistentQVM_del(qvm, QVM, o)
          IN  /\ qvm' = [r.self EXCEPT !.life = "dead"]
              /\ Called(QVM, "__del__", PyNone, qvm, r, r.err)
    /\ UNCHANGED jobs

\* job = AsyncJob(sub_request, connection), by the caller
NewAsyncJob ==
    /\ Len(jobs) < MaxJobs
    /\ \E sr \in SubRequests, c \in {None, "conn"},
          probe \in ProbeAnswers, create \in CreateAnswers :
          LET jid == JobId(Len(jobs) + 1)
              r   == AsyncJob_init(jid, sr, c, probe, create)
          IN  /\ jobs' = Append(jobs, r.self)
              /\ Called(jid, "__init__", sr, NewObject, r, r.err)
    /\ UNCHANGED qvm

JobCall(i, op, r) ==
    /\ jobs' = [jobs EXCEPT ![i] = r.self]
    /\ Called(JobId(i), op, PyNone, jobs[i], r, r.err)
    /\ UNCHANGED qvm

Job_close ==
    \E i \in DOMAIN jobs, o \in PlainAnswers :
        /\ jobs[i].life = "live"
        /\ JobCall(i, "close", AsyncJob_close(jobs[i], JobId(i), o))

Job_get_job_info ==
    \E i \in DOMAIN jobs : \E o \in JobInfoAnswers(i) :
        /\ jobs[i].life = "live"
        /\ JobCall(i, "get_job_info", AsyncJob_get_job_info(jobs[i], JobId(i), o))

Job_get_job_result ==
    \E i \in DOMAIN jobs, o \in PlainAnswers :
        /\ jobs[i].life = "live"
        /\ JobCall(i, "get_job_result", AsyncJob_get_job_result(jobs[i], JobId(i), o))

\* with job: ...
Job_enter ==
    \E i \in DOMAIN jobs :
        /\ jobs[i].life = "live"
        /\ jobs[i].scope = "none"
        /\ jobs' = [jobs EXCEPT ![i].scope = "in"]
        /\ Called(JobId(i), "__enter__", PyNone, jobs[i],
                  Result(jobs[i], <<>>, None, PyNone), None)
        /\ UNCHANGED qvm

Job_exit ==
    \E i \in DOMAIN jobs, exc \in {None, "BodyError"}, o \in PlainAnswers :
        /\ jobs[i].life = "live"
        /\ jobs[i].scope = "in"
        /\ LET r == AsyncJob_exit(jobs[i], JobId(i), exc, o)
           IN  /\ jobs' = [jobs EXCEPT ![i] = [r.self EXCEPT !.scope = "done"]]
               /\ Called(JobId(i), "__exit__", PyStr(exc), jobs[i], r, WithRaises(r, exc))
        /\ UNCHANGED qvm

Job_del ==
    \E i \in DOMAIN jobs, o \in PlainAnswers :
        /\ jobs[i].life \in {"live", "failed"}
        /\ jobs[i].scope # "in"
        /\ LET r == AsyncJob_del(jobs[i], JobId(i), o)
           IN  /\ jobs' = [jobs EXCEPT ![i] = [r.self EXCEPT !.life = "dead"]]
               /\ Called(JobId(i), "__del__", PyNone, jobs[i], r, r.err)
        /\ UNCHANGED qvm

Next ==
    \/ NewPersistentQVM
    \/ QVM_close
    \/ QVM_get_version_info
    \/ QVM_get_qvm_info
    \/ QVM_read_memory
    \/ QVM_write_memory
    \/ QVM_resume
    \/ QVM_run_program
    \/ QVM_run_program_async
    \/ QVM_enter
    \/ QVM_exit
    \/ QVM_del
    \/ NewAsyncJob
    \/ Job_close
    \/ Job_get_job_info
    \/ Job_get_job_result
    \/ Job_enter
    \/ Job_exit
    \/ Job_del

Spec == Init /\ [][Next]_vars

\* The session on its own: everything a caller can do with the
\* PersistentQVM; run_program_async is called while no job has been made,
\* and the AsyncJob it returns is left alone.
NextSession ==
    \/ NewPersistentQVM
    \/ QVM_close
    \/ QVM_get_version_info
    \/ QVM_get_qvm_info
    \/ QVM_read_memory
    \/ QVM_write_memory
    \/ QVM_resume
    \/ QVM_run_program
    \/ (jobs = <<>> /\ QVM_run_program_async)
    \/ QVM_enter
    \/ QVM_exit
    \/ QVM_del

SpecSession == Init /\ [][NextSession]_vars

\* Construction: every way an object of either class is made, and its
\* end of life.
NextCreate ==
    \/ NewPersistentQVM
    \/ QVM_run_program_async
    \/ QVM_del
    \/ NewAsyncJob
    \/ Job_del

SpecCreate == Init /\ [][NextCreate]_vars

\* The job on its own: AsyncJobs the caller constructs, and everything a
\* caller can do with them.
NextJob ==
    \/ NewAsyncJob
    \/ Job_close
    \/ Job_get_job_info
    \/ Job_get_job_result
    \/ Job_enter
    \/ Job_exit
    \/ Job_del

SpecJob == Init /\ [][NextJob]_vars

\* A session and the jobs it spawns: construction, run_program_async, an
\* operation of the session, the operations of a job, and the two close().
NextShared ==
    \/ NewPersistentQVM
    \/ QVM_run_program_async
    \/ QVM_get_qvm_info
    \/ QVM_close
    \/ Job_get_job_info
    \/ Job_get_job_result
    \/ Job_close

SpecShared == Init /\ [][NextShared]_vars

\* Release: the construction of a session and of one job, and every way
\* their use is ended.
NextRelease ==
    \/ NewPersistentQVM
    \/ QVM_close
    \/ QVM_enter
    \/ QVM_exit
    \/ QVM_del
    \/ (jobs = <<>> /\ NewAsyncJob)
    \/ Job_close
    \/ Job_enter
    \/ Job_exit
    \/ Job_del

SpecRelease == Init /\ [][NextRelease]_vars

(***************************************************************************)
(* get_job_result at the grain of its RPC.  The call issues "job result"   *)
(* and waits in it; the service works on the job meanwhile, and answers    *)
(* the RPC once it has a result.  The caller is one thread: while the call *)
(* waits, it makes no other.                                               *)
(***************************************************************************)
CallerFree == \A i \in 1..MaxJobs : service[i].inflight = None

\* what the service answers to an RPC of job i
ServiceAnswers(i, op) ==
    IF op = "job_result" THEN JobResultAnswers(i) ELSE JobInfoAnswers(i)

\* the service takes a job it has created one status further, and records
\* the result when that status is terminal
ServiceStep ==
    /\ \E i \in DOMAIN jobs, k \in 1..(Len(JobStatuses) - 1) :
          /\ HasAttr(jobs[i].attrs, "token")
          /\ service[i].status = JobStatuses[k]
          /\ \E res \in IF JobStatuses[k + 1] \in TerminalStatuses
                         THEN JobResults ELSE {PyNone} :
                service' = [service EXCEPT ![i].status = JobStatuses[k + 1],
                                           ![i].result = res]
    /\ UNCHANGED <<qvm, jobs, log, issued, last, version, verdict>>

\* job.get_job_result() is called: it raises at once if it issues no RPC,
\* and else its RPC is in flight
Job_get_job_result_call ==
    /\ CallerFree
    /\ \E i \in DOMAIN jobs :
          /\ jobs[i].life = "live"
          /\ LET r == AsyncJob_get_job_result(jobs[i], JobId(i),
                                              [outcome |-> "ok", reply |-> PyNone])
             IN  IF r.rpcs = <<>>
                 THEN JobCall(i, "get_job_result", r)
                 ELSE /\ service' = [service EXCEPT ![i].inflight = r.rpcs[1].op]
                      /\ UNCHANGED <<qvm, jobs, log, issued, last, version, verdict>>

\* the RPC in flight is answered, and get_job_result returns or raises
Job_get_job_result_return ==
    \E i \in DOMAIN jobs :
        /\ service[i].inflight # None
        /\ \E o \in ServiceAnswers(i, service[i].inflight) :
              LET r == AsyncJob_get_job_result(jobs[i], JobId(i), o)
              IN  /\ jobs' = [jobs EXCEPT ![i] = r.self]
                  /\ CalledIn(JobId(i), "get_job_result", PyNone, jobs[i], r, r.err)
                  /\ service' = [service EXCEPT ![i].inflight = None]
                  /\ UNCHANGED qvm

NextResult ==
    \/ (CallerFree /\ NewAsyncJob)
    \/ (CallerFree /\ Job_get_job_info)
    \/ (CallerFree /\ Job_close)
    \/ ServiceStep
    \/ Job_get_job_result_call
    \/ Job_get_job_result_return

SpecResult == Init /\ [][NextResult]_vars

\* the transport delivers the answer of an RPC that can be answered
SpecResultFair == SpecResult /\ WF_vars(Job_get_job_result_return)

(***************************************************************************)
(* The version guard on its own: check_qvm_ng_version applied to every     *)
(* string over VersionChars of at most MaxVersionLen characters.           *)
(***************************************************************************)
VersionStrings == UNION {[1..n -> VersionChars] : n \in 0..MaxVersionLen}

InitGuard ==
    /\ qvm = [life |-> "unborn", scope |-> "none", attrs |-> NoAttrs]
    /\ jobs = <<>>
    /\ log = [o \in ObjectIds |-> <<>>]
    /\ issued = 0
    /\ last = NoCall
    /\ version \in VersionStrings
    /\ verdict = "idle"
    /\ service = NoService

CheckVersion ==
    /\ verdict = "idle"
    /\ verdict' = check_qvm_ng_version(version)
    /\ UNCHANGED <<qvm, jobs, log, issued, last, version, service>>

NextGuard == CheckVersion

SpecGuard == InitGuard /\ [][NextGuard]_vars

(***************************************************************************)
(* What the claims speak of.                                               *)
(***************************************************************************)
\* the object with this id
Obj(id) == IF id = QVM THEN qvm ELSE jobs[CHOOSE i \in DOMAIN jobs : JobId(i) = id]

Exists(id) == id = QVM \/ \E i \in DOMAIN jobs : JobId(i) = id

IsDelete(rpc) == rpc.op \in {"delete_qvm", "delete_job"}

IsFailedDelete(rpc) == IsDelete(rpc) /\ rpc.outcome # "ok"

\* how many "delete" RPCs a sequence holds, and how many of them failed
Deletes(rpcs) == Cardinality({i \in DOMAIN rpcs : IsDelete(rpcs[i])})

FailedDeletes(rpcs) == Cardinality({i \in DOMAIN rpcs : IsFailedDelete(rpcs[i])})

IsCreate(rpc) == rpc.op \in CreateOps

\* the error a call on a closed object ends in: the connection is None,
\* and None has no RPC methods
UsageError == "AttributeError"

\* what ends the use of an object: close(), the end of a with block, and
\* the end of its life
CloseTriggers == {"close", "__exit__", "__del__"}

C2_Operations == {"get_qvm_info", "read_memory", "write_memory", "resume", "run_program"}

\* C2: on a closed session, get_qvm_info, read_memory, write_memory, resume
\* and run_program with a Program raise the usage error and issue no RPC.
C2_ClosedSessionRefuses ==
    (/\ last.obj = QVM /\ last.op \in C2_Operations /\ Closed(qvm)
     /\ (last.op = "run_program" => last.arg.py = "Program"))
    => /\ last.err = UsageError
       /\ last.rpcs = <<>>
       /\ ~last.changed

C2_Witness ==
    /\ last.obj = QVM /\ last.op = "run_program" /\ last.arg.py = "Program"
    /\ Closed(qvm) /\ last.err = UsageError /\ last.rpcs = <<>>

\* C3, as claimed: on a closed session, run_program_async with a Program
\* raises the usage error, issues no RPC on any transport, returns no
\* AsyncJob, and no request carries the session's released token.
C3_AsClaimed ==
    (last.obj = QVM /\ last.op = "run_program_async" /\ last.arg.py = "Program"
        /\ Closed(qvm))
    => /\ last.err = UsageError
       /\ last.rpcs = <<>>
       /\ last.ret = PyNone
       /\ \A i \in DOMAIN last.rpcs :
             last.rpcs[i].op = "create_job"
                 => last.rpcs[i].arg.qvm_token # qvm.attrs.token

IsProbe(rpc) == rpc.op = "get_version_info"

\* the calls that construct an object
Constructions == {"__init__", "run_program_async"}

\* C4: a create RPC directly follows, in the same construction and on the
\* same connection, a version probe whose reply check_qvm_ng_version
\* accepts; an object whose probe returned a version the check rejects as
\* a mismatch has the construction end in QVMVersionMismatch, has no
\* create RPC and never holds a token; and a token held was granted by
\* the object's own create RPC.
C4_VersionBeforeToken ==
    /\ \A id \in ObjectIds :
          /\ \A i \in DOMAIN log[id] :
                IsCreate(log[id][i])
                    => /\ i > 1
                       /\ IsProbe(log[id][i - 1])
                       /\ log[id][i - 1].by = log[id][i].by
                       /\ log[id][i - 1].conn = log[id][i].conn
                       /\ log[id][i - 1].outcome = "ok"
                       /\ check_qvm_ng_version(log[id][i - 1].reply.val) = "ok"
          /\ (\E i \in DOMAIN log[id] :
                 /\ IsProbe(log[id][i]) /\ log[id][i].outcome = "ok"
                 /\ check_qvm_ng_version(log[id][i].reply.val) = "QVMVersionMismatch")
                => /\ \A i \in DOMAIN log[id] : ~IsCreate(log[id][i])
                   /\ Exists(id) => ~HasAttr(Obj(id).attrs, "token")
          /\ (Exists(id) /\ HasAttr(Obj(id).attrs, "token"))
                => \E i \in DOMAIN log[id] :
                      /\ IsCreate(log[id][i]) /\ log[id][i].outcome = "ok"
                      /\ log[id][i].reply.val = Obj(id).attrs.token
    /\ (/\ last.op \in Constructions
        /\ \E i \in DOMAIN last.rpcs :
              /\ IsProbe(last.rpcs[i]) /\ last.rpcs[i].outcome = "ok"
              /\ check_qvm_ng_version(last.rpcs[i].reply.val) = "QVMVersionMismatch")
          => /\ last.err = "QVMVersionMismatch"
             /\ \A i \in DOMAIN last.rpcs : ~IsCreate(last.rpcs[i])

C4_Witness ==
    /\ \E i \in DOMAIN log[QVM] :
          /\ IsProbe(log[QVM][i]) /\ log[QVM][i].outcome = "ok"
          /\ check_qvm_ng_version(log[QVM][i].reply.val) = "QVMVersionMismatch"
    /\ jobs # <<>>
    /\ HasAttr(jobs[1].attrs, "token")
    /\ Len(log[JobId(1)]) = 2

\* the arguments PersistentQVM accepts
SessionArgsValid(a) ==
    /\ validate_num_qubits(a.num_qubits)
    /\ validate_simulation_method(a.simulation_method)
    /\ validate_allocation_method(a.allocation_method)
    /\ validate_noise_probabilities(a.measurement_noise)
    /\ validate_noise_probabilities(a.gate_noise)
    /\ (a.random_seed = PyNone \/ (a.random_seed.py = "int" /\ a.random_seed.val >= 0))

\* the errors raised before a transport is touched
LocalErrors == {"ValidationError", "TypeError"}

\* C5: a construction given an invalid argument raises a local error and
\* issues no RPC at all.
C5_InvalidArgsNoRpc ==
    /\ (last.obj = QVM /\ last.op = "__init__" /\ ~SessionArgsValid(last.arg))
          => /\ last.err \in LocalErrors
             /\ last.rpcs = <<>>
             /\ log[QVM] = <<>>
    /\ (last.obj # QVM /\ last.op = "__init__" /\ ~validate_job_sub_request(last.arg))
          => /\ last.err \in LocalErrors
             /\ last.rpcs = <<>>
             /\ log[last.obj] = <<>>

C5_Witness ==
    /\ last.obj # QVM /\ last.op = "__init__" /\ ~validate_job_sub_request(last.arg)
    /\ last.err = "ValidationError"
    /\ qvm.life = "failed" /\ ~HasAttr(qvm.attrs, "connection") /\ log[QVM] = <<>>

\* where the dots of a version string are
DotsOf(v) == {i \in DOMAIN v : v[i] = "."}

\* major.minor.patch, each a run of one or more decimal digits
WellFormed(v) ==
    /\ Cardinality(DotsOf(v)) = 2
    /\ \A i \in DOMAIN v : i \notin DotsOf(v) => IsDigit(v[i])
    /\ 1 \notin DotsOf(v)
    /\ Len(v) \notin DotsOf(v)
    /\ \A i \in DotsOf(v) : i + 1 \notin DotsOf(v)

FirstDot(v) == CHOOSE i \in DotsOf(v) : \A j \in DotsOf(v) : i <= j

LastDot(v) == CHOOSE i \in DotsOf(v) : \A j \in DotsOf(v) : j <= i

MajorOf(v) == Decimal(SubSeq(v, 1, FirstDot(v) - 1))

MinorOf(v) == Decimal(SubSeq(v, FirstDot(v) + 1, LastDot(v) - 1))

\* C6: on a well-formed version check_qvm_ng_version raises
\* QVMVersionMismatch exactly when major = 1 and minor < 11 and returns
\* otherwise; on any other string (a piece that is no number, or not three
\* pieces) it raises an error that is not QVMVersionMismatch.
C6_VersionPolicy ==
    verdict # "idle"
    => /\ WellFormed(version)
            => /\ verdict \in {"ok", "QVMVersionMismatch"}
               /\ verdict = "QVMVersionMismatch"
                      <=> (MajorOf(version) = 1 /\ MinorOf(version) < 11)
       /\ ~WellFormed(version) => verdict \notin {"ok", "QVMVersionMismatch"}

C6_Witness ==
    /\ verdict = "ok"
    /\ WellFormed(version)
    /\ MajorOf(version) = 2
    /\ MinorOf(version) < 11

\* C7: a construction whose version probe fails with a connectivity
\* failure ends in QVMNotRunning and issues no create RPC.
C7_ProbeUnreachable ==
    /\ (/\ last.op \in Constructions
        /\ \E i \in DOMAIN last.rpcs :
              IsProbe(last.rpcs[i]) /\ last.rpcs[i].outcome = "ConnectionError")
          => /\ last.err = "QVMNotRunning"
             /\ \A i \in DOMAIN last.rpcs : ~IsCreate(last.rpcs[i])
    /\ \A id \in ObjectIds :
          (\E i \in DOMAIN log[id] :
              IsProbe(log[id][i]) /\ log[id][i].outcome = "ConnectionError")
             => /\ \A i \in DOMAIN log[id] : ~IsCreate(log[id][i])
                /\ Exists(id) => ~HasAttr(Obj(id).attrs, "token")

C7_Witness ==
    /\ last.op = "__init__" /\ last.obj # QVM /\ last.err = "QVMNotRunning"
    /\ Len(last.rpcs) = 1 /\ last.rpcs[1].outcome = "ConnectionError"

EarlierDeletes(id) == Deletes(log[id]) - Deletes(last.rpcs)

\* a job whose use has been ended at least once
Released(job) == job.life = "dead" \/ job.scope = "done" \/ Closed(job)

\* what C9 asks of one job: its delete RPCs are "delete job" RPCs with its
\* own token on its own connection; once its use has been ended one such
\* RPC has been issued; a trigger after the first issues none, changes
\* nothing and raises nothing of its own
C9_OneRelease(i) ==
    LET id == JobId(i)
    IN  /\ \A k \in DOMAIN log[id] :
              IsDelete(log[id][k])
                  => /\ log[id][k].op = "delete_job"
                     /\ log[id][k].token = jobs[i].attrs.token
                     /\ log[id][k].conn = log[id][1].conn
        /\ Released(jobs[i]) => Deletes(log[id]) = 1
        /\ (last.obj = id /\ last.op \in CloseTriggers /\ EarlierDeletes(id) > 0)
              => /\ last.rpcs = <<>>
                 /\ ~last.changed
                 /\ last.err = (IF last.op = "__exit__" THEN last.arg.val ELSE None)

C10_ClosedJobRefuses ==
    \A i \in DOMAIN jobs :
        (last.obj = JobId(i) /\ last.op \in {"get_job_info", "get_job_result"}
            /\ Closed(jobs[i]))
        => /\ last.err = UsageError
           /\ last.rpcs = <<>>
           /\ ~last.changed

C10_Witness ==
    /\ jobs # <<>> /\ Closed(jobs[1])
    /\ last.obj = JobId(1) /\ last.op = "get_job_result" /\ last.err = UsageError
    /\ Deletes(log[JobId(1)]) = 1

\* C11: a PersistentQVM construction that raised (in a validator, in the
\* seed check, in the version probe or check, or in the create RPC) leaves
\* an object without a token, and no "delete session" RPC is ever issued
\* for such an object, by __del__ included.
C11_FailedCreateInert ==
    /\ (last.obj = QVM /\ last.op = "__init__" /\ last.err # None)
          => (qvm.life = "failed" /\ log[QVM] = last.rpcs)
    /\ qvm.life = "failed" => ~HasAttr(qvm.attrs, "token")
    /\ (qvm.life \in {"failed", "dead"} /\ ~HasAttr(qvm.attrs, "token"))
          => /\ Deletes(log[QVM]) = 0
             /\ (last.obj = QVM /\ last.op = "__del__") => last.rpcs = <<>>

C11_Witness ==
    /\ qvm.life = "dead" /\ ~HasAttr(qvm.attrs, "token")
    /\ HasAttr(qvm.attrs, "connection")
    /\ last.obj = QVM /\ last.op = "__del__"
    /\ \E i \in DOMAIN log[QVM] :
          log[QVM][i].op = "create_qvm" /\ log[QVM][i].outcome # "ok"

\* a job that run_program_async made
Spawned(i) == log[JobId(i)] # <<>> /\ log[JobId(i)][1].by = "run_program_async"

\* C12, in every state: the token of a spawned job is not the session's;
\* a delete RPC of an object is the delete of its class and carries its own
\* token; run_program_async on a session that is not closed issues the
\* job's RPCs on the session's connection and gives the job that
\* connection; an operation of a session that is not closed issues its RPC
\* with the session's token on the session's connection, whatever the jobs
\* are; get_job_info and get_job_result of a job that is not closed issue
\* theirs with the job's token on the job's connection, whatever the
\* session is.
C12_OwnTokens ==
    /\ \A i \in DOMAIN jobs :
          /\ (Spawned(i) /\ HasAttr(jobs[i].attrs, "token"))
                => /\ HasAttr(qvm.attrs, "token")
                   /\ jobs[i].attrs.token # qvm.attrs.token
          /\ \A k \in DOMAIN log[JobId(i)] :
                IsDelete(log[JobId(i)][k])
                    => /\ log[JobId(i)][k].op = "delete_job"
                       /\ log[JobId(i)][k].token = jobs[i].attrs.token
          /\ (/\ last.obj = JobId(i) /\ last.op \in {"get_job_info", "get_job_result"}
              /\ jobs[i].life = "live" /\ ~Closed(jobs[i]))
                => /\ Len(last.rpcs) = 1
                   /\ last.rpcs[1].op = (IF last.op = "get_job_info"
                                         THEN "job_info" ELSE "job_result")
                   /\ last.rpcs[1].token = jobs[i].attrs.token
                   /\ last.rpcs[1].conn = jobs[i].attrs.connection
    /\ \A k \in DOMAIN log[QVM] :
          IsDelete(log[QVM][k])
              => /\ log[QVM][k].op = "delete_qvm"
                 /\ log[QVM][k].token = qvm.attrs.token
    /\ (/\ last.obj = QVM /\ last.op = "run_program_async" /\ last.arg.py = "Program"
        /\ ~Closed(qvm))
          => /\ last.rpcs # <<>>
             /\ \A k \in DOMAIN last.rpcs :
                   /\ last.rpcs[k].conn = qvm.attrs.connection
                   /\ last.rpcs[k].obj = JobId(Len(jobs))
             /\ jobs[Len(jobs)].attrs.connection = qvm.attrs.connection
    /\ (last.obj = QVM /\ last.op = "get_qvm_info" /\ ~Closed(qvm))
          => /\ Len(last.rpcs) = 1
             /\ last.rpcs[1].op = "qvm_info"
             /\ last.rpcs[1].token = qvm.attrs.token
             /\ last.rpcs[1].conn = qvm.attrs.connection

\* C12, in every step: a method of a job leaves the session as it was, and
\* a method of the session leaves the jobs there are as they were.
C12_OwnLifecycles ==
    /\ last'.obj # QVM => qvm' = qvm
    /\ last'.obj = QVM => \A i \in DOMAIN jobs : jobs'[i] = jobs[i]

\* C12: both.
C12_Independent == []C12_OwnTokens /\ [][C12_OwnLifecycles]_vars

C12_Witness ==
    /\ Closed(qvm) /\ log[QVM][1].conn = "conn"
    /\ jobs # <<>> /\ Spawned(1) /\ log[JobId(1)][1].conn = "conn"
    /\ last.obj = JobId(1) /\ last.op = "get_job_result"
    /\ Len(last.rpcs) = 1 /\ last.rpcs[1].outcome = "ok"
    /\ last.rpcs[1].token = jobs[1].attrs.token

\* active: constructed, and not closed
Active(obj) == obj.life = "live" /\ HasAttr(obj.attrs, "token") /\ ~Closed(obj)

\* C13, in every state: the constructor stores the seed it was given;
\* run_program with a Program on an active session issues one RPC, the
\* "run program" RPC, with the session's token, the program, the
\* classical addresses of the program, no simulation method, allocation
\* method, measurement noise or gate noise, and the seed the session holds.
C13_RunRequest ==
    /\ (last.obj = QVM /\ last.op = "__init__" /\ last.err = None)
          => qvm.attrs.random_seed = last.arg.random_seed
    /\ (last.obj = QVM /\ last.op = "run_program" /\ last.arg.py = "Program"
            /\ Active(qvm))
          => /\ Len(last.rpcs) = 1
             /\ last.rpcs[1].op = "run_program"
             /\ last.rpcs[1].conn = qvm.attrs.connection
             /\ last.rpcs[1].token = qvm.attrs.token
             /\ last.rpcs[1].arg =
                    [py |-> "dict",
                     quil_program |-> last.arg,
                     qvm_token |-> qvm.attrs.token,
                     simulation_method |-> None,
                     allocation_method |-> None,
                     classical_addresses |-> last.arg.writes,
                     measurement_noise |-> None,
                     gate_noise |-> None,
                     random_seed |-> qvm.attrs.random_seed]

\* C13, in every step: the seed a constructed session holds stays the one
\* it holds.
C13_SeedKept ==
    qvm.life = "live"
        => (HasAttr(qvm'.attrs, "random_seed")
              /\ qvm'.attrs.random_seed = qvm.attrs.random_seed)

\* C13: both, so that the seed of the request is the seed of the creation.
C13_RunProgramRequest == []C13_RunRequest /\ [][C13_SeedKept]_vars

C13_Witness ==
    /\ last.obj = QVM /\ last.op = "run_program" /\ Active(qvm)
    /\ last.arg.name = "r"
    /\ Len(last.rpcs) = 1 /\ last.rpcs[1].outcome = "ok"
    /\ last.rpcs[1].arg.random_seed = PyInt(1)
    /\ last.rpcs[1].arg.classical_addresses = [ro |-> <<2>>, aux |-> <<0>>]
    /\ last.prior.same

\* the parameters of a "run program" request
RunParameters ==
    {"quil_program", "qvm_token", "simulation_method", "allocation_method",
     "classical_addresses", "measurement_noise", "gate_noise", "random_seed"}

\* the request run_program issues for a program on a session
SyncRequest(self, quil_program) ==
    PersistentQVM_run_program(self, QVM, quil_program,
                              [outcome |-> "ok", reply |-> [py |-> "dict"]]).rpcs[1]

\* C14: the sub-request of the "create job" RPC that run_program_async
\* issues on an active session has, parameter by parameter, the values of
\* the "run program" RPC run_program issues for the same program on the
\* same session, on the same connection; and run_program_async issues
\* nothing but the version probe and the "create job" RPC, so no "job
\* result" RPC.
C14_SameRequest ==
    (last.obj = QVM /\ last.op = "run_program_async" /\ last.arg.py = "Program"
        /\ Active(qvm))
    => /\ \A k \in DOMAIN last.rpcs :
             /\ last.rpcs[k].op \in {"get_version_info", "create_job"}
             /\ last.rpcs[k].op = "create_job"
                   => /\ k = Len(last.rpcs)
                      /\ last.rpcs[k].conn = SyncRequest(qvm, last.arg).conn
                      /\ \A f \in RunParameters :
                            /\ f \in DOMAIN last.rpcs[k].arg
                            /\ last.rpcs[k].arg[f] = SyncRequest(qvm, last.arg).arg[f]
       /\ last.err = None
             => /\ last.ret.py = "AsyncJob"
                /\ last.rpcs[Len(last.rpcs)].op = "create_job"

C14_Witness ==
    /\ last.obj = QVM /\ last.op = "run_program_async" /\ Active(qvm)
    /\ last.arg.name = "r" /\ last.err = None
    /\ Len(last.rpcs) = 2 /\ last.rpcs[2].op = "create_job"
    /\ last.rpcs[2].arg.random_seed = PyInt(1)
    /\ last.rpcs[2].arg.qvm_token = qvm.attrs.token

\* C15, in every state: a get_job_result that returned did so with the
\* "job result" RPC of its job, the status of the job is terminal, and what
\* it returned is the recorded result.
C15_ResultWhenTerminal ==
    \A i \in DOMAIN jobs :
        (last.obj = JobId(i) /\ last.op = "get_job_result" /\ last.err = None)
        => /\ service[i].status \in TerminalStatuses
           /\ last.ret = service[i].result
           /\ Len(last.rpcs) = 1
           /\ last.rpcs[1].op = "job_result"
           /\ last.rpcs[1].token = jobs[i].attrs.token

\* C15, in every step: a get_job_info that returns does so in the step it
\* is called in, with the status and the result as the service has them.
C15_InfoAtOnce ==
    \A i \in DOMAIN jobs :
        (/\ last' # last /\ service' = service
         /\ last'.obj = JobId(i) /\ last'.op = "get_job_info" /\ last'.err = None)
        => /\ last'.ret.status = service[i].status
           /\ last'.ret.result = service[i].result

\* C15, in time: a get_job_result that waits while the status is terminal
\* comes to an end, returning the recorded result unless its RPC failed.
C15_ResultInTime ==
    \A i \in 1..MaxJobs :
        (service[i].inflight # None /\ service[i].status \in TerminalStatuses)
        ~> (/\ service[i].inflight = None
            /\ last.obj = JobId(i) /\ last.op = "get_job_result"
            /\ (last.err = None => last.ret = service[i].result))

\* C15: the three.
C15_BlockingResult ==
    /\ []C15_ResultWhenTerminal
    /\ [][C15_InfoAtOnce]_vars
    /\ C15_ResultInTime

C15_Witness ==
    /\ jobs # <<>> /\ Active(jobs[1])
    /\ last.obj = JobId(1) /\ last.op = "get_job_result" /\ last.err = None
    /\ last.ret = [py |-> "dict", ro |-> <<1>>]
    /\ service[1].status = "complete"

\* C16, as claimed: close(), called by __del__ or by the caller, on an
\* object whose construction raised, and which so has no token, issues no
\* RPC and raises nothing.
C16_AsClaimed ==
    \A id \in ObjectIds :
        (/\ Exists(id) /\ ~HasAttr(Obj(id).attrs, "token")
         /\ last.obj = id /\ last.op \in {"close", "__del__"})
        => (last.rpcs = <<>> /\ last.err = None)

\* C17, as claimed: a session one of whose "delete session" RPCs has
\* succeeded holds no token, in that state and in every later one.
C17_AsClaimed ==
    (\E k \in DOMAIN log[QVM] : IsDelete(log[QVM][k]) /\ log[QVM][k].outcome = "ok")
    => (~HasAttr(qvm.attrs, "token") \/ qvm.attrs.token = None)

\* the operations C18 names
C18_Operations ==
    {"get_version_info", "get_qvm_info", "read_memory", "write_memory", "resume",
     "run_program", "run_program_async"}

\* C18, in every step: one of these operations on an active session leaves
\* the session's life, token, connection and configuration, every
\* attribute it has, as they were, whether it returns or raises; and a
\* step that changes an attribute of the session is a step of the
\* constructor or of a close(), called directly, by __exit__ or by __del__.
C18_Frame ==
    /\ (last'.obj = QVM /\ last'.op \in C18_Operations /\ Active(qvm))
          => /\ qvm'.attrs = qvm.attrs
             /\ qvm'.life = qvm.life
             /\ ~last'.changed
             /\ Active(qvm')
    /\ qvm'.attrs # qvm.attrs
          => (last'.obj = QVM /\ last'.op \in {"__init__"} \cup CloseTriggers)

C18_OperationsKeepState == [][C18_Frame]_vars

C18_Witness ==
    /\ last.obj = QVM /\ last.op = "write_memory" /\ last.err = "ConnectionError"
    /\ Len(last.rpcs) = 1
    /\ Active(qvm) /\ qvm.attrs.random_seed = PyInt(1) /\ qvm.attrs.num_qubits = PyInt(2)

\* the fields of the configuration of a session
ConfigFields ==
    {"num_qubits", "simulation_method", "allocation_method", "measurement_noise",
     "gate_noise", "random_seed"}

\* C19, as claimed: the "create session" RPC of a construction carries
\* every field of the configuration the constructor was given, the random
\* seed with the rest.
C19_AsClaimed ==
    (last.obj = QVM /\ last.op = "__init__")
    => \A k \in DOMAIN last.rpcs :
          last.rpcs[k].op = "create_qvm"
              => \A f \in ConfigFields :
                    /\ f \in DOMAIN last.rpcs[k].arg
                    /\ last.rpcs[k].arg[f] = last.arg[f]

\* what C20 asks of a state, for one object: a close(), however it was
\* called, whose delete RPC failed raised that failure and left the
\* object's attributes, token and connection with them, as they were; the
\* object is closed only if a delete RPC of its own succeeded; and its
\* delete RPCs all carry the one token it holds.
C20_FailedCloseKeeps(id) ==
    /\ (/\ last.obj = id /\ last.op \in CloseTriggers
        /\ last.rpcs # <<>> /\ IsFailedDelete(last.rpcs[1]))
          => /\ last.err = last.rpcs[1].outcome
             /\ ~last.changed
             /\ ~Closed(Obj(id))
             /\ Obj(id).attrs.token = last.rpcs[1].token
             /\ Obj(id).attrs.connection = last.rpcs[1].conn
    /\ Closed(Obj(id))
          <=> (\E k \in DOMAIN log[id] :
                  IsDelete(log[id][k]) /\ log[id][k].outcome = "ok")
    /\ \A k \in DOMAIN log[id] :
          IsDelete(log[id][k]) => log[id][k].token = Obj(id).attrs.token

\* what C20 asks of a step, for one object: after a failed delete RPC, the
\* next close(), however it is called, issues the delete RPC again, with
\* the same token on the same connection.
C20_ClosesAgain(id) ==
    (/\ Exists(id) /\ FailedDeletes(log[id]) > 0 /\ ~Closed(Obj(id))
     /\ last' # last /\ last'.obj = id /\ last'.op \in CloseTriggers)
    => /\ Len(last'.rpcs) = 1
       /\ IsDelete(last'.rpcs[1])
       /\ last'.rpcs[1].token = Obj(id).attrs.token
       /\ last'.rpcs[1].conn = Obj(id).attrs.connection
       /\ Deletes(log'[id]) = Deletes(log[id]) + 1

\* C20: both, of the session and of every job.
C20_FailedCloseRetried ==
    /\ [](\A id \in ObjectIds : Exists(id) => C20_FailedCloseKeeps(id))
    /\ [][\A id \in ObjectIds : C20_ClosesAgain(id)]_vars

C20_Witness ==
    /\ FailedDeletes(log[QVM]) = 1 /\ Deletes(log[QVM]) = 2 /\ Closed(qvm)
    /\ last.obj = QVM /\ last.op = "__del__"
    /\ log[QVM][Len(log[QVM])].by = "__del__"
    /\ log[QVM][Len(log[QVM]) - 1].by = "close"

====
